---- MODULE Spec2Model ----
(***************************************************************************)
(* State-machine model of src/index.js (neon-trace-api): the push          *)
(* broadcast handler (POST /api/push/broadcast), the FCM v1 access-token   *)
(* cache (getFcmAccessToken) and the route handler (POST /api/route).      *)
(*                                                                         *)
(* JavaScript runs each handler to completion between two awaits, so one   *)
(* action is one such synchronous segment: it starts where a request       *)
(* arrives or an awaited promise settles and ends at the next await or at  *)
(* the response.  Outbound HTTP requests are answered by the environment:  *)
(* the answer of each request is drawn from the outcomes axios can         *)
(* produce.  The deployment modelled is the one without MONGODB_URI, where *)
(* db stays null and the in-memory collections are used.                   *)
(***************************************************************************)
EXTENDS Integers, Sequences, FiniteSets, TLC

(* ------------------------------ bounds -------------------------------- *)

\* Recipient lists hold up to MaxWindows full windows (or batches) plus one.
MaxWindows == 1
\* Broadcast invocations that may be in progress in the credential runs.
NumInv == 2
\* Number of times the clock advances in a run.
MaxTicks == 3
\* Longest list of route candidates the provider returns.
MaxFeatures == 3
\* Most device tokens registered in the runs with registrations.
MaxTokens == 2

(* ------------------------- program constants -------------------------- *)

\* const maxC = 10
maxC == 10
\* for (let i=0; i<tokens.length; i+=900)
legacyBatch == 900
\* { ..., timeout: 20000 } of the send, batch and route requests
sendTimeout == 20000
\* { ..., timeout: 15000 } of the token exchange
exchangeTimeout == 15000
\* (_fcmAuth.exp - 60*5): the margin subtracted from the expiry
refreshMargin == 60 * 5
\* (expires_in||3600)
defaultExpiresIn == 3600

(* ------------------------------ helpers ------------------------------- *)

Min(a, b) == IF a < b THEN a ELSE b

\* Math.floor(x / y) for non-negative x
Floor(x, y) == x \div y

\* ceil(n / d)
CeilDiv(n, d) == (n + d - 1) \div d

Iota(n) == [k \in 1..n |-> k]

\* Sizes around the multiples of a window: k*unit - 1, k*unit, k*unit + 1.
SizesAround(unit) ==
  { n \in 0..(MaxWindows * unit + 1) :
      \E k \in 0..MaxWindows : n \in {k * unit - 1, k * unit, k * unit + 1} }

(* ------------------------------- state -------------------------------- *)

VARIABLES
  env,       \* process.env as read by the handlers (fixed for a run)
  clock,     \* Date.now(), in milliseconds
  ticks,     \* how often the clock has advanced
  fcmAuth,   \* _fcmAuth = { token, exp }; token 0 is null
  minted,    \* access tokens the identity provider has issued so far
  memTokens, \* memTokens, as the sequence of its keys in insertion order
  bc,        \* the broadcast invocations, by invocation id
  net,       \* every outbound request issued so far, in order
  rt,        \* the route invocation
  memLogs    \* memLogs

vars == <<env, clock, ticks, fcmAuth, minted, memTokens, bc, net, rt, memLogs>>

Inv == 1..NumInv

\* The failures with which an axios.post promise rejects.
TransportErrors == {"network_error", "non_2xx", "timeout"}

\* The outcomes of one per-recipient send request.
SendOutcomes == {"ok"} \cup TransportErrors

\* expires_in values of the identity provider; 0 stands for a missing field.
ExpiresIn == {0, 60, 3600}

\* Steps by which the clock advances (ms): 0.4 s, 55 min, 60 min.
TickSteps == {400, 3300000, 3600000}

(* ----------------------- process configuration ------------------------ *)

\* sa, FCM_SERVICE_ACCOUNT: unset, not JSON, JSON whose private_key cannot
\* sign, or a usable service account.  project, where a project id comes
\* from: FCM_PROJECT_ID ("env"), else the project_id of the service account
\* JSON ("sa"), else nowhere.  fcmKey: FCM_SERVER_KEY or FCM_KEY is set.
\* orsKey: ORS_API_KEY is set.
Envs ==
  { e \in [sa : {"absent", "malformed", "badkey", "ok"},
           project : {"none", "env", "sa"}, fcmKey : BOOLEAN, orsKey : BOOLEAN] :
      e.project = "sa" => e.sa \in {"badkey", "ok"} }

\* const saJson = process.env.FCM_SERVICE_ACCOUNT (truthy)
saJson(e) == e.sa # "absent"

\* const projectId = process.env.FCM_PROJECT_ID || (()=>{ try { return JSON.parse(saJson||'{}').project_id } catch { return null } })()
projectId(e) == e.project = "env" \/ (e.sa \in {"badkey", "ok"} /\ e.project = "sa")

\* Mutant: the project id is not tested.
modernWithoutProject(e) == saJson(e)

\* if (saJson && projectId)
modernSelected(e) == saJson(e) /\ projectId(e)

\* Mutant: the legacy branch is taken without testing the key.
legacyUnchecked(e) == ~modernSelected(e)

\* else if (FCM_KEY)
legacySelected(e) == ~modernSelected(e) /\ e.fcmKey

(* --------------------------- outbound requests ------------------------ *)

Request(b, kind, to, batch, bearer, timeout, options) ==
  [inv |-> b, kind |-> kind, to |-> to, batch |-> batch, bearer |-> bearer,
   timeout |-> timeout, options |-> options]

\* axios.post(url, { message: { token: t, ... } }, { headers: { Authorization: `Bearer ${bearer}` }, timeout: 20000 })
sendRequest(b, t, bearer) == Request(b, "send", t, <<>>, bearer, sendTimeout, FALSE)

\* axios.post('https://fcm.googleapis.com/fcm/send', { ..., registration_ids: batch }, { ..., timeout: 20000 })
batchRequest(b, batch) == Request(b, "batch", 0, batch, 0, sendTimeout, FALSE)

\* Mutant: the token exchange carries the deadline of the send requests.
exchangeRequestSendDeadline(b) == Request(b, "exchange", 0, <<>>, 0, sendTimeout, FALSE)

\* axios.post('https://oauth2.googleapis.com/token', form, { ..., timeout: 15000 })
exchangeRequest(b) == Request(b, "exchange", 0, <<>>, 0, exchangeTimeout, FALSE)

(* ------------------------- broadcast invocation ----------------------- *)

NoResponse == [status |-> 0, error |-> "", sent |-> 0, failed |-> 0, total |-> 0]

\* A broadcast invocation before its request arrives.  called, hit,
\* callClock, callAuth, tokAt, tokExp, windows and batchErrors record what
\* the invocation did: its getFcmAccessToken call (the clock and the cache
\* at the call, whether the cache answered, the clock and the expiry of the
\* token at its return), the sizes of the windows it awaited and the
\* number of its batches that failed in transport.
IdleBroadcast ==
  [pc |-> "idle", tokens |-> <<>>, i |-> 0, inflight |-> <<>>, pending |-> {},
   sent |-> 0, failed |-> 0, bearer |-> 0, res |-> NoResponse,
   called |-> FALSE, hit |-> FALSE, callClock |-> 0,
   callAuth |-> [token |-> 0, exp |-> 0], tokAt |-> 0, tokExp |-> 0,
   windows |-> <<>>, batchErrors |-> 0]

\* Mutant: total is read from the token store when the response is written.
replyLiveTotal(r) ==
  [r EXCEPT !.pc = "done",
            !.res = [status |-> 200, error |-> "", sent |-> r.sent,
                     failed |-> r.failed, total |-> Len(memTokens)]]

\* return res.json({ ok: true, sent, failed, total: tokens.length })
reply(r) ==
  [r EXCEPT !.pc = "done",
            !.res = [status |-> 200, error |-> "", sent |-> r.sent,
                     failed |-> r.failed, total |-> Len(r.tokens)]]

\* Mutant: the catch swallows the error and writes no response.
replyErrorSilent(r, msg) == [r EXCEPT !.pc = "hung"]

\* return res.status(500).json({ error: ... })
replyError(r, msg) ==
  [r EXCEPT !.pc = "done",
            !.res = [status |-> 500, error |-> msg, sent |-> 0, failed |-> 0,
                     total |-> 0]]

\* Mutant: the window is awaited one request late.
windowFullOffByOne(inflight) == Len(inflight) > maxC

\* if (inflight.length >= maxC) { await Promise.all(inflight); inflight = [] }
windowFull(inflight) == Len(inflight) >= maxC

\* The for loop over tokens from position r.i on, up to its next await:
\* each iteration posts one send request and pushes its promise; a full
\* window is awaited inside the loop, a partial one after it.
RECURSIVE sendLoop(_)
sendLoop(r) ==
  IF r.i < Len(r.tokens)
  THEN LET r1 == [r EXCEPT !.i = r.i + 1,
                           !.inflight = Append(r.inflight, r.i + 1),
                           !.pending = r.pending \cup {r.i + 1}]
       IN  IF windowFull(r1.inflight)
           THEN [r1 EXCEPT !.pc = "window",
                           !.windows = Append(r.windows, Len(r1.inflight))]
           ELSE sendLoop(r1)
  ELSE IF Len(r.inflight) > 0
       THEN [r EXCEPT !.pc = "tail",
                      !.windows = Append(r.windows, Len(r.inflight))]
       ELSE reply(r)

\* Mutant: each segment reads the bearer from the cache again.
sendsIssuedFromCache(b, r, from) ==
  [k \in 1..(r.i - from) |-> sendRequest(b, r.tokens[from + k], fcmAuth.token)]

\* The send requests a segment issued: those of positions from+1 .. to.
sendsIssued(b, r, from) ==
  [k \in 1..(r.i - from) |-> sendRequest(b, r.tokens[from + k], r.bearer)]

\* Mutant: the slice runs one recipient into the next batch.
batchAtOverlong(r) ==
  SubSeq(r.tokens, r.i + 1, Min(r.i + legacyBatch + 1, Len(r.tokens)))

\* const batch = tokens.slice(i, i+900)
batchAt(r) == SubSeq(r.tokens, r.i + 1, Min(r.i + legacyBatch, Len(r.tokens)))

\* The legacy for loop at its condition: post the next batch and await it,
\* or leave the loop and respond.
legacyLoop(r) ==
  IF r.i < Len(r.tokens) THEN [r EXCEPT !.pc = "batch"] ELSE reply(r)

batchIssued(b, r) ==
  IF r.pc = "batch" THEN <<batchRequest(b, batchAt(r))>> ELSE <<>>

(* ----------------------------- getFcmAccessToken ---------------------- *)

\* const now = Math.floor(Date.now()/1000)
nowSeconds(c) == Floor(c, 1000)

\* if (_fcmAuth.token && (_fcmAuth.exp - 60*5) > (now*1000)) return _fcmAuth.token
cacheHit(auth, c) ==
  auth.token # 0 /\ (auth.exp - refreshMargin) > (nowSeconds(c) * 1000)

\* getFcmAccessToken up to its await: throws, returns the cached token, or
\* signs the assertion (which throws on an unusable key) and posts it.
getTokenSync(e, auth, c) ==
  IF e.sa = "absent" THEN [kind |-> "throw", err |-> "missing_service_account"]
  ELSE IF e.sa = "malformed"
       THEN [kind |-> "throw", err |-> "invalid_service_account_json"]
  ELSE IF cacheHit(auth, c) THEN [kind |-> "hit", err |-> ""]
  ELSE IF e.sa = "badkey" THEN [kind |-> "throw", err |-> "sign_error"]
  ELSE [kind |-> "post", err |-> ""]

\* Mutant: the new token is stored with the expiry already in the cache.
newAuthKeepsExpiry(token, expiresIn, c) ==
  [token |-> token,
   exp |-> IF fcmAuth.token # 0 THEN fcmAuth.exp
           ELSE c + ((IF expiresIn = 0 THEN defaultExpiresIn ELSE expiresIn) * 1000)]

\* _fcmAuth = { token: access_token, exp: Date.now() + ((expires_in||3600)*1000) }
newAuth(token, expiresIn, c) ==
  [token |-> token,
   exp |-> c + ((IF expiresIn = 0 THEN defaultExpiresIn ELSE expiresIn) * 1000)]

(* ------------------------------ actions ------------------------------- *)

\* POST /api/push/broadcast arrives: read the tokens, select the protocol
\* and run to the first await or to the response.
Start(b) ==
  /\ bc[b].pc = "idle"
  /\ LET r0 == [bc[b] EXCEPT !.tokens = memTokens]
     IN
     IF modernSelected(env)
     THEN LET g  == getTokenSync(env, fcmAuth, clock)
              r1 == [r0 EXCEPT !.called = TRUE, !.callClock = clock,
                               !.callAuth = fcmAuth]
          IN  IF g.kind = "throw"
              THEN /\ bc' = [bc EXCEPT ![b] = replyError(r1, g.err)]
                   /\ net' = net
              ELSE IF g.kind = "hit"
              THEN LET r2 == sendLoop([r1 EXCEPT !.hit = TRUE,
                                                 !.bearer = fcmAuth.token,
                                                 !.tokAt = clock,
                                                 !.tokExp = fcmAuth.exp])
                   IN  /\ bc' = [bc EXCEPT ![b] = r2]
                       /\ net' = net \o sendsIssued(b, r2, 0)
              ELSE /\ bc' = [bc EXCEPT ![b] = [r1 EXCEPT !.pc = "exchange"]]
                   /\ net' = Append(net, exchangeRequest(b))
     ELSE IF legacySelected(env)
     THEN LET r1 == legacyLoop(r0)
          IN  /\ bc' = [bc EXCEPT ![b] = r1]
              /\ net' = net \o batchIssued(b, r1)
     ELSE /\ bc' = [bc EXCEPT ![b] = replyError(r0, "server_missing_fcm_credentials")]
          /\ net' = net
  /\ UNCHANGED <<env, clock, ticks, fcmAuth, minted, memTokens, rt, memLogs>>

\* The token exchange is answered with an access token: cache it, return it
\* to the broadcast, and run the send loop to its first await.
ExchangeOk(b, expiresIn) ==
  /\ bc[b].pc = "exchange"
  /\ expiresIn \in ExpiresIn
  /\ LET a  == newAuth(minted + 1, expiresIn, clock)
         r1 == sendLoop([bc[b] EXCEPT !.bearer = a.token, !.tokAt = clock,
                                      !.tokExp = a.exp])
     IN  /\ fcmAuth' = a
         /\ minted' = minted + 1
         /\ bc' = [bc EXCEPT ![b] = r1]
         /\ net' = net \o sendsIssued(b, r1, 0)
  /\ UNCHANGED <<env, clock, ticks, memTokens, rt, memLogs>>

\* Mutant: a failed exchange empties the cache.
ExchangeFailClearsCache(b, err) ==
  /\ bc[b].pc = "exchange"
  /\ err \in TransportErrors \cup {"token_exchange_failed"}
  /\ bc' = [bc EXCEPT ![b] = replyError(bc[b], err)]
  /\ fcmAuth' = [token |-> 0, exp |-> 0]
  /\ UNCHANGED <<env, clock, ticks, minted, memTokens, net, rt, memLogs>>

\* Mutant: a failed exchange falls back to the legacy protocol when its
\* key is set.
ExchangeFailFallsBack(b, err) ==
  /\ bc[b].pc = "exchange"
  /\ err \in TransportErrors \cup {"token_exchange_failed"}
  /\ LET r1 == IF env.fcmKey THEN legacyLoop(bc[b]) ELSE replyError(bc[b], err)
     IN  /\ bc' = [bc EXCEPT ![b] = r1]
         /\ net' = net \o batchIssued(b, r1)
  /\ UNCHANGED <<env, clock, ticks, fcmAuth, minted, memTokens, rt, memLogs>>

\* The token exchange fails: axios rejects, or the response carries no
\* access_token (token_exchange_failed).  The broadcast's catch responds.
ExchangeFail(b, err) ==
  /\ bc[b].pc = "exchange"
  /\ err \in TransportErrors \cup {"token_exchange_failed"}
  /\ bc' = [bc EXCEPT ![b] = replyError(bc[b], err)]
  /\ UNCHANGED <<env, clock, ticks, fcmAuth, minted, memTokens, net, rt, memLogs>>

\* Mutant: a rejected send is swallowed without being counted.
countSendDropFailure(r, outcome) ==
  IF outcome = "ok" THEN [r EXCEPT !.sent = r.sent + 1] ELSE r

\* .then(()=>{ sent += 1 }).catch(()=>{ failed += 1 })
countSend(r, outcome) ==
  IF outcome = "ok" THEN [r EXCEPT !.sent = r.sent + 1]
  ELSE [r EXCEPT !.failed = r.failed + 1]

\* Mutant: the await resolves with the first promise that settles.
anySettled(r) == Cardinality(r.pending) < Len(r.inflight)

\* await Promise.all(inflight) resolves: every promise pushed has settled.
allSettled(r) == r.pending = {}

\* One send request settles.  When it is the last one awaited, Promise.all
\* resolves and the handler goes on: the next window, or the response.
SettleSend(b, p, outcome) ==
  /\ bc[b].pc \in {"window", "tail"}
  /\ p \in bc[b].pending
  /\ outcome \in SendOutcomes
  /\ LET r1 == [countSend(bc[b], outcome) EXCEPT !.pending = bc[b].pending \ {p}]
         r2 == IF ~allSettled(r1) THEN r1
               ELSE IF r1.pc = "window"
                    THEN sendLoop([r1 EXCEPT !.inflight = <<>>])
                    ELSE reply(r1)
     IN  /\ bc' = [bc EXCEPT ![b] = r2]
         /\ net' = net \o sendsIssued(b, r2, bc[b].i)
  /\ UNCHANGED <<env, clock, ticks, fcmAuth, minted, memTokens, rt, memLogs>>

\* Mutant: the catch reports no counts.
batchCatchNoCount(batch) == [success |-> 0, failure |-> 0]

\* .catch((e)=>({ data: { failure: batch.length, success: 0, error: e.message } }))
batchCatch(batch) == [success |-> 0, failure |-> Len(batch)]

\* The counts a legacy response reports for a batch of n registration ids:
\* every id is either a success or a failure.
LegacyReports(n) ==
  { [success |-> s, failure |-> n - s] : s \in {0, 1, n - 1, n} \cap (0..n) }

\* sent += Number(r.success||0); failed += Number(r.failure||0)
countBatch(r, data) ==
  [r EXCEPT !.sent = r.sent + data.success, !.failed = r.failed + data.failure,
            !.i = r.i + legacyBatch]

\* The awaited legacy batch request is answered with a report.
BatchOk(b, data) ==
  /\ bc[b].pc = "batch"
  /\ data \in LegacyReports(Len(batchAt(bc[b])))
  /\ LET r1 == legacyLoop(countBatch(bc[b], data))
     IN  /\ bc' = [bc EXCEPT ![b] = r1]
         /\ net' = net \o batchIssued(b, r1)
  /\ UNCHANGED <<env, clock, ticks, fcmAuth, minted, memTokens, rt, memLogs>>

\* The awaited legacy batch request rejects and the catch stands in.
BatchFail(b, err) ==
  /\ bc[b].pc = "batch"
  /\ err \in TransportErrors
  /\ LET r1 == legacyLoop([countBatch(bc[b], batchCatch(batchAt(bc[b])))
                             EXCEPT !.batchErrors = bc[b].batchErrors + 1])
     IN  /\ bc' = [bc EXCEPT ![b] = r1]
         /\ net' = net \o batchIssued(b, r1)
  /\ UNCHANGED <<env, clock, ticks, fcmAuth, minted, memTokens, rt, memLogs>>

\* POST /api/push/register with a device id and token t: memTokens.set
\* adds the token at the end of the map's key order, or updates the entry
\* of a token already there and leaves the order alone.
Register(t) ==
  /\ t \in 1..MaxTokens
  /\ memTokens' = IF \E k \in 1..Len(memTokens) : memTokens[k] = t
                  THEN memTokens ELSE Append(memTokens, t)
  /\ UNCHANGED <<env, clock, ticks, fcmAuth, minted, bc, net, rt, memLogs>>

\* Time passes.
Tick(d) ==
  /\ ticks < MaxTicks
  /\ d \in TickSteps
  /\ clock' = clock + d
  /\ ticks' = ticks + 1
  /\ UNCHANGED <<env, fcmAuth, minted, memTokens, bc, net, rt, memLogs>>

(* ------------------------------ POST /api/route ----------------------- *)

\* A JavaScript value that is a finite number n, or one isFinite rejects.
Num(n) == [fin |-> TRUE, v |-> n]
NotFinite == [fin |-> FALSE, v |-> 0]

\* Values of origin and destination in the request body: absent (falsy), an
\* object with numeric lat and lng, an array [a, b], or any other value.
Missing == [shape |-> "missing", a |-> Num(0), b |-> Num(0)]
Other == [shape |-> "other", a |-> Num(0), b |-> Num(0)]
Obj(lat, lng) == [shape |-> "obj", a |-> Num(lat), b |-> Num(lng)]
Arr(a, b) == [shape |-> "arr", a |-> a, b |-> b]

CoordInputs ==
  { Missing, Other, Obj(40, -73), Obj(999, 999),
    Arr(Num(40), Num(-73)), Arr(Num(-73), Num(40)), Arr(Num(10), Num(20)),
    Arr(Num(999), Num(999)), Arr(NotFinite, Num(40)) }

Abs(n) == IF n < 0 THEN -n ELSE n

\* throw new Error('invalid coordinate: ' + JSON.stringify(x))
InvalidCoordinate == [ok |-> FALSE, lat |-> 0, lng |-> 0]

LatLng(lat, lng) == [ok |-> TRUE, lat |-> lat, lng |-> lng]

\* Mutant: a value that cannot be read becomes the point (0, 0).
toLLLenient(x) ==
  IF x.shape = "obj" THEN LatLng(x.a.v, x.b.v)
  ELSE IF x.shape = "arr" /\ x.a.fin /\ x.b.fin
  THEN IF Abs(x.a.v) <= 90 /\ Abs(x.b.v) <= 180
       THEN LatLng(x.a.v, x.b.v) ELSE LatLng(x.b.v, x.a.v)
  ELSE LatLng(0, 0)

\* function toLL(x), applied to a value that is not falsy
toLL(x) ==
  IF x.shape = "obj" THEN LatLng(x.a.v, x.b.v)
  ELSE IF x.shape = "arr"
  THEN IF x.a.fin /\ x.b.fin /\ Abs(x.a.v) <= 90 /\ Abs(x.b.v) <= 180
       THEN LatLng(x.a.v, x.b.v)
       ELSE IF x.a.fin /\ x.b.fin THEN LatLng(x.b.v, x.a.v)
       ELSE InvalidCoordinate
  ELSE InvalidCoordinate

\* A route candidate: f.properties.summary.distance, when it is there.
Candidate(hasDist, d) == [hasDist |-> hasDist, distance |-> d]

Candidates == {Candidate(FALSE, 0), Candidate(TRUE, 95), Candidate(TRUE, 120)}

FeatureLists == UNION { [1..n -> Candidates] : n \in 0..MaxFeatures }

\* Mutant: a missing distance counts as 0 instead of Infinity.
shorterMissingZero(f, best) ==
  (IF f.hasDist THEN f.distance ELSE 0) < (IF best.hasDist THEN best.distance ELSE 0)

\* (f.properties?.summary?.distance ?? Infinity) < (best.properties?.summary?.distance ?? Infinity)
shorter(f, best) ==
  f.hasDist /\ (~best.hasDist \/ f.distance < best.distance)

\* let best = features[0]; for (const f of features) { if (...) best = f }
RECURSIVE pickFrom(_, _, _)
pickFrom(features, k, best) ==
  IF k > Len(features) THEN best
  ELSE pickFrom(features, k + 1,
                IF shorter(features[k], features[best]) THEN k ELSE best)

\* The position of the candidate picked from a non-empty list.
pickShortest(features) == pickFrom(features, 1, 1)

\* The rejections of a route request: an error response with or without a
\* body, or none at all (status 0: timeout, connection error).
RouteErrors ==
  { [status |-> 400, data |-> TRUE], [status |-> 400, data |-> FALSE],
    [status |-> 500, data |-> TRUE], [status |-> 500, data |-> FALSE],
    [status |-> 0, data |-> FALSE] }

\* axios.post(url, body | baseBody, { headers: { Authorization: ORS_KEY, ... }, timeout: 20000 })
routeRequest(options) == Request(0, "route", 0, <<>>, 0, sendTimeout, options)

NoRouteResponse ==
  [status |-> 0, error |-> "", hasDist |-> FALSE, distance |-> 0, alternatives |-> 0]

\* No answer to a provider call yet.
NoAnswer == [answer |-> "none", status |-> 0, body |-> FALSE]

\* The rejection e as the answer to a provider call.
Rejected(e) == [answer |-> "rejected", status |-> e.status, body |-> e.data]

\* The route invocation before its request arrives: origin and destination
\* of the request body, their coercions a and b, the provider's features
\* and the position of best among them.  first and retry record the answers
\* to its provider calls: "none", "ok" or "rejected", and the status of a
\* rejection and whether it carried a body.
IdleRoute ==
  [pc |-> "idle", origin |-> Missing, destination |-> Missing,
   a |-> InvalidCoordinate, b |-> InvalidCoordinate,
   features |-> <<>>, best |-> 0, res |-> NoRouteResponse,
   first |-> NoAnswer, retry |-> NoAnswer]

\* catch (e): return res.status(500).json({ error: e.message })
routeThrow(r, msg) ==
  [r EXCEPT !.pc = "done",
            !.res = [NoRouteResponse EXCEPT !.status = 500, !.error = msg]]

\* catch (e) of an axios rejection: the provider's status and body when the
\* error carries a response with data, else 500 and the message.
routeReject(r, e) ==
  IF e.status # 0 /\ e.data
  THEN [r EXCEPT !.pc = "done",
                 !.res = [NoRouteResponse EXCEPT !.status = e.status,
                                                 !.error = "ors_error"]]
  ELSE routeThrow(r, "request_failed")

\* Mutant: every error status is retried.
anyStatusRejected(e) == e.status >= 400

\* if (e.response && e.response.status === 400)
shapeRejected(e) == e.status = 400

\* The handler from the provider's data on: no candidate throws, else the
\* shortest is picked, the log entry pushed and the route returned.
routeFinish(r, features) ==
  IF Len(features) = 0 THEN routeThrow(r, "No route returned")
  ELSE LET best == features[pickShortest(features)]
       IN  [r EXCEPT !.pc = "done", !.best = pickShortest(features),
                     !.res = [status |-> 200, error |-> "",
                              hasDist |-> best.hasDist,
                              distance |-> IF best.hasDist THEN best.distance ELSE 0,
                              alternatives |-> Len(features)]]

\* Mutant: the log entry is pushed whether or not a route was found.
routeLogAlways(r, logs) ==
  Append(logs, [a |-> r.a, b |-> r.b, pathsAnalyzed |-> r.res.alternatives,
                hasDist |-> r.res.hasDist, distance |-> r.res.distance])

\* const doc = { ..., pathsAnalyzed: features.length, chosen: { distance, duration }, ... }; memLogs.push(doc)
routeLog(r, logs) ==
  IF r.res.status = 200
  THEN Append(logs, [a |-> r.a, b |-> r.b, pathsAnalyzed |-> r.res.alternatives,
                     hasDist |-> r.res.hasDist, distance |-> r.res.distance])
  ELSE logs

\* POST /api/route arrives: validate, coerce both points and post the
\* request with alternatives.
RouteStart(origin, destination) ==
  /\ rt.pc = "idle"
  /\ origin \in CoordInputs /\ destination \in CoordInputs
  /\ LET r0 == [rt EXCEPT !.origin = origin, !.destination = destination]
     IN
     IF ~env.orsKey
     THEN rt' = routeThrow(r0, "Server missing ORS_API_KEY") /\ net' = net
     ELSE IF origin.shape = "missing" \/ destination.shape = "missing"
     THEN rt' = routeThrow(r0, "origin/destination required") /\ net' = net
     ELSE IF ~toLL(origin).ok
     THEN rt' = routeThrow(r0, "invalid coordinate") /\ net' = net
     ELSE IF ~toLL(destination).ok
     THEN rt' = routeThrow([r0 EXCEPT !.a = toLL(origin)], "invalid coordinate")
          /\ net' = net
     ELSE /\ rt' = [r0 EXCEPT !.pc = "first", !.a = toLL(origin),
                              !.b = toLL(destination)]
          /\ net' = Append(net, routeRequest(TRUE))
  /\ UNCHANGED <<env, clock, ticks, fcmAuth, minted, memTokens, bc, memLogs>>

\* The provider answers a route request (the first one or the retry) with
\* data: resp.data.features, or none.
RouteOk(features) ==
  /\ rt.pc \in {"first", "retry"}
  /\ features \in FeatureLists
  /\ LET r1 == IF rt.pc = "first"
               THEN [rt EXCEPT !.first.answer = "ok", !.features = features]
               ELSE [rt EXCEPT !.retry.answer = "ok", !.features = features]
         r2 == routeFinish(r1, features)
     IN  /\ rt' = r2
         /\ memLogs' = routeLog(r2, memLogs)
  /\ UNCHANGED <<env, clock, ticks, fcmAuth, minted, memTokens, bc, net>>

\* The first request is rejected: a 400 is retried without options, any
\* other error is thrown on to the handler's catch.
RouteFirstRejected(e) ==
  /\ rt.pc = "first"
  /\ e \in RouteErrors
  /\ LET r1 == [rt EXCEPT !.first = Rejected(e)]
     IN  IF shapeRejected(e)
         THEN /\ rt' = [r1 EXCEPT !.pc = "retry"]
              /\ net' = Append(net, routeRequest(FALSE))
         ELSE /\ rt' = routeReject(r1, e)
              /\ net' = net
  /\ UNCHANGED <<env, clock, ticks, fcmAuth, minted, memTokens, bc, memLogs>>

\* The retry is rejected: thrown on to the handler's catch.
RouteRetryRejected(e) ==
  /\ rt.pc = "retry"
  /\ e \in RouteErrors
  /\ rt' = routeReject([rt EXCEPT !.retry = Rejected(e)], e)
  /\ UNCHANGED <<env, clock, ticks, fcmAuth, minted, memTokens, bc, net, memLogs>>

(* --------------------------- specifications --------------------------- *)

InitCommon ==
  /\ clock = 0
  /\ ticks = 0
  /\ fcmAuth = [token |-> 0, exp |-> 0]
  /\ minted = 0
  /\ bc = [b \in Inv |-> IdleBroadcast]
  /\ net = <<>>
  /\ rt = IdleRoute
  /\ memLogs = <<>>

\* One broadcast over recipient lists around the window and batch sizes,
\* under every configuration.  The clock stands still, so the expiry the
\* provider reports plays no part and is left at its default.
InitDispatch ==
  /\ InitCommon
  /\ env \in { e \in Envs : e.orsKey }
  /\ \E n \in (IF modernSelected(env) THEN SizesAround(maxC)
               ELSE SizesAround(legacyBatch)) : memTokens = Iota(n)

NextDispatch ==
  \/ Start(1)
  \/ ExchangeOk(1, 0)
  \/ \E err \in TransportErrors \cup {"token_exchange_failed"} : ExchangeFail(1, err)
  \/ \E p \in bc[1].pending, o \in SendOutcomes : SettleSend(1, p, o)
  \/ \E d \in LegacyReports(Len(batchAt(bc[1]))) : BatchOk(1, d)
  \/ \E err \in TransportErrors : BatchFail(1, err)

SpecDispatch == InitDispatch /\ [][NextDispatch]_vars

\* Broadcasts over an empty recipient list, one after the other or
\* overlapping, while time passes: the runs of getFcmAccessToken.
InitToken ==
  /\ InitCommon
  /\ env \in { e \in Envs : e.orsKey /\ modernSelected(e) /\ ~e.fcmKey }
  /\ memTokens = <<>>

NextToken ==
  \/ \E b \in Inv : Start(b)
  \/ \E b \in Inv, e \in ExpiresIn : ExchangeOk(b, e)
  \/ \E b \in Inv, err \in TransportErrors \cup {"token_exchange_failed"} : ExchangeFail(b, err)
  \/ \E d \in TickSteps : Tick(d)

SpecToken == InitToken /\ [][NextToken]_vars

\* The same runs against a provider whose tokens all live the usual hour.
NextTokenHourly ==
  \/ \E b \in Inv : Start(b)
  \/ \E b \in Inv : ExchangeOk(b, defaultExpiresIn)
  \/ \E b \in Inv, err \in TransportErrors \cup {"token_exchange_failed"} : ExchangeFail(b, err)
  \/ \E d \in TickSteps : Tick(d)

SpecTokenHourly == InitToken /\ [][NextTokenHourly]_vars

\* One route request, for every pair of origin and destination values.
InitRoute ==
  /\ InitCommon
  /\ env \in { e \in Envs : e.sa = "absent" /\ e.project = "none" /\ ~e.fcmKey }
  /\ memTokens = <<>>

NextRoute ==
  \/ \E o \in CoordInputs, d \in CoordInputs : RouteStart(o, d)
  \/ \E f \in FeatureLists : RouteOk(f)
  \/ \E e \in RouteErrors : RouteFirstRejected(e)
  \/ \E e \in RouteErrors : RouteRetryRejected(e)

SpecRoute == InitRoute /\ [][NextRoute]_vars

\* The runs of getFcmAccessToken that bear on the cache: broadcasts over an
\* empty recipient list, overlapping or not, against a provider whose
\* tokens live a minute or the default hour, with the clock moving an hour
\* at a time so that every cached token goes stale.
NextCache ==
  \/ \E b \in Inv : Start(b)
  \/ \E b \in Inv, e \in {0, 60} : ExchangeOk(b, e)
  \/ \E b \in Inv, err \in {"timeout", "token_exchange_failed"} : ExchangeFail(b, err)
  \/ Tick(defaultExpiresIn * 1000)

SpecCache == InitToken /\ [][NextCache]_vars

\* Modern broadcasts over one recipient more than a window holds, numbered
\* in the order they start, while the clock moves past the life of the
\* cached token: a broadcast between its two windows can find its token
\* expired and the cache refreshed by a broadcast started later.  The
\* sends succeed and settle in the order issued, which leaves every order
\* of the handlers' segments; the clock moves only where that matters, to
\* end the life of a token in the cache.
InitBearer ==
  /\ InitCommon
  /\ env = [sa |-> "ok", project |-> "env", fcmKey |-> FALSE, orsKey |-> TRUE]
  /\ memTokens = Iota(maxC + 1)

NextBearer ==
  \/ \E b \in Inv : (\A o \in 1..(b - 1) : bc[o].pc # "idle") /\ Start(b)
  \/ \E b \in Inv : ExchangeOk(b, 60)
  \/ \E b \in Inv :
       /\ bc[b].pending # {}
       /\ SettleSend(b, CHOOSE p \in bc[b].pending : \A q \in bc[b].pending : p <= q, "ok")
  \/ (fcmAuth.token # 0 /\ clock < fcmAuth.exp) /\ Tick(defaultExpiresIn * 1000)

SpecBearer == InitBearer /\ [][NextBearer]_vars

\* Broadcasts overlapping with each other and with registrations, under
\* the modern and under the legacy protocol: every order of the handlers'
\* segments, of the completions of their requests and of the arrival of new
\* tokens.  Broadcasts are numbered in the order they start and tokens in
\* the order they first arrive.
InitOverlap ==
  /\ InitCommon
  /\ env \in { [sa |-> "ok", project |-> "env", fcmKey |-> FALSE, orsKey |-> TRUE],
               [sa |-> "absent", project |-> "none", fcmKey |-> TRUE, orsKey |-> TRUE] }
  /\ memTokens = <<>>

NextOverlap ==
  \/ \E t \in 1..(Len(memTokens) + 1) : Register(t)
  \/ \E b \in Inv : (\A o \in 1..(b - 1) : bc[o].pc # "idle") /\ Start(b)
  \/ \E b \in Inv : ExchangeOk(b, 0)
  \/ \E b \in Inv : ExchangeFail(b, "timeout")
  \/ \E b \in Inv : \E p \in bc[b].pending, o \in {"ok", "timeout"} : SettleSend(b, p, o)
  \/ \E b \in Inv : \E d \in LegacyReports(Len(batchAt(bc[b]))) : BatchOk(b, d)
  \/ \E b \in Inv : BatchFail(b, "timeout")

SpecOverlap == InitOverlap /\ [][NextOverlap]_vars

\* The server as a whole: one broadcast over at most one recipient and one
\* route request between two good points, overlapping in every order,
\* under every configuration.
\* The points of the route request: the pair [40, -73] or a value of the
\* wrong shape as origin, the pair [-73, 40] as destination.
GoodOrigins == { x \in CoordInputs : x.shape = "arr" /\ x.a.fin /\ x.a.v = 40 }
BadOrigins == { x \in CoordInputs : x.shape = "other" }
GoodDestinations == { x \in CoordInputs : x.shape = "arr" /\ x.a.fin /\ x.a.v = -73 }

InitServer ==
  /\ InitCommon
  /\ rt.origin \in CoordInputs /\ rt.destination \in CoordInputs
  /\ env \in Envs
  /\ \E n \in 0..1 : memTokens = Iota(n)

NextServer ==
  \/ Start(1)
  \/ ExchangeOk(1, 0)
  \/ \E err \in TransportErrors \cup {"token_exchange_failed"} : ExchangeFail(1, err)
  \/ \E p \in bc[1].pending, o \in SendOutcomes : SettleSend(1, p, o)
  \/ \E d \in LegacyReports(Len(batchAt(bc[1]))) : BatchOk(1, d)
  \/ \E err \in TransportErrors : BatchFail(1, err)
  \/ \E o \in GoodOrigins, d \in GoodDestinations : RouteStart(o, d)
  \/ \E f \in FeatureLists : RouteOk(f)
  \/ \E e \in RouteErrors : RouteFirstRejected(e)
  \/ \E e \in RouteErrors : RouteRetryRejected(e)

SpecServer == InitServer /\ [][NextServer]_vars

\* A broadcast and a route request run to their ends, overlapping in every
\* order, under a configuration of each kind: modern, modern with a
\* service account that cannot be parsed, legacy, and none.  The broadcast
\* reads no recipient, or one more than a window or a batch holds; its
\* sends settle, with success or failure, in the order issued.  Every
\* request that has been issued is answered in the end, one way or the
\* other; nothing obliges a request to arrive at the server.
InitLive ==
  /\ InitCommon
  /\ rt.origin \in CoordInputs /\ rt.destination \in CoordInputs
  /\ env \in { [sa |-> "ok", project |-> "env", fcmKey |-> TRUE, orsKey |-> TRUE],
               [sa |-> "malformed", project |-> "env", fcmKey |-> FALSE, orsKey |-> TRUE],
               [sa |-> "absent", project |-> "none", fcmKey |-> TRUE, orsKey |-> TRUE],
               [sa |-> "absent", project |-> "none", fcmKey |-> FALSE, orsKey |-> FALSE] }
  /\ \E n \in {0, (IF modernSelected(env) THEN maxC ELSE legacyBatch) + 1} :
       memTokens = Iota(n)

\* The oldest send of invocation b still awaited settles.
SettleOldest(b, outcome) ==
  /\ bc[b].pending # {}
  /\ SettleSend(b, CHOOSE p \in bc[b].pending : \A q \in bc[b].pending : p <= q, outcome)

ExchangeSettles(b) ==
  (\E err \in {"timeout", "token_exchange_failed"} : ExchangeFail(b, err)) \/ ExchangeOk(b, 0)

SendSettles(b) == \E o \in {"ok", "timeout"} : SettleOldest(b, o)

BatchSettles(b) ==
  (\E d \in LegacyReports(Len(batchAt(bc[b]))) : BatchOk(b, d)) \/ BatchFail(b, "timeout")

\* The provider answers with no candidate or with one, or the call fails:
\* with a 400 and a body, with a 500 and none, or without any response.
RouteSettles ==
  \/ \E f \in {<<>>, <<Candidate(TRUE, 95)>>} : RouteOk(f)
  \/ \E e \in { x \in RouteErrors : x.data = (x.status = 400) } : RouteFirstRejected(e)
  \/ \E e \in { x \in RouteErrors : x.data = (x.status = 400) } : RouteRetryRejected(e)

NextLive ==
  \/ Start(1)
  \/ ExchangeSettles(1)
  \/ SendSettles(1)
  \/ BatchSettles(1)
  \/ \E o \in GoodOrigins \cup BadOrigins, d \in GoodDestinations : RouteStart(o, d)
  \/ RouteSettles

\* Every outbound request eventually settles.
EverySettles ==
  /\ \A b \in Inv : WF_vars(ExchangeSettles(b))
  /\ \A b \in Inv : WF_vars(SendSettles(b))
  /\ \A b \in Inv : WF_vars(BatchSettles(b))
  /\ WF_vars(RouteSettles)

SpecLive == InitLive /\ [][NextLive]_vars /\ EverySettles

(* ------------------------------ claims -------------------------------- *)

\* What the claims call configured, read off the environment.
IdentityConfigured == env.sa # "absent"
ProjectConfigured == env.project # "none"
ModernConfigured == IdentityConfigured /\ ProjectConfigured
StaticKeyConfigured == env.fcmKey

RequestsOf(b, kind) == SelectSeq(net, LAMBDA q : q.inv = b /\ q.kind = kind)

Recipients(reqs) == [k \in 1..Len(reqs) |-> reqs[k].to]

\* The invocation has responded with its counts.
Replied(b) == bc[b].pc = "done" /\ bc[b].res.status = 200

RECURSIVE Concat(_)
Concat(ss) == IF ss = <<>> THEN <<>> ELSE Head(ss) \o Concat(Tail(ss))

\* C1: under the modern protocol the send requests issued so far are those
\* of the first recipients of the list, one each and in order, and when the
\* broadcast responds there are N of them, sent + failed = N and total = N.
C1_OneSendPerRecipient ==
  \A b \in Inv :
    (ModernConfigured /\ bc[b].pc # "idle") =>
      LET N == Len(bc[b].tokens)
          sends == RequestsOf(b, "send")
      IN  /\ Len(sends) <= N
          /\ Recipients(sends) = SubSeq(bc[b].tokens, 1, Len(sends))
          /\ Replied(b) =>
               /\ Len(sends) = N
               /\ bc[b].res.sent + bc[b].res.failed = N
               /\ bc[b].res.total = N

\* A modern broadcast over two windows has responded after successes and
\* failures.
C1_Witness ==
  /\ ModernConfigured /\ Replied(1)
  /\ Len(bc[1].tokens) = maxC + 1
  /\ bc[1].res.sent > 0 /\ bc[1].res.failed > 0

\* C2: the send requests of one broadcast that are issued and not settled
\* are never more than 10.
C2_AtMostTenInFlight ==
  \A b \in Inv : Cardinality(bc[b].pending) <= 10

\* Ten requests of a list of eleven are in flight.
C2_Witness ==
  /\ Len(bc[1].tokens) = maxC + 1
  /\ Cardinality(bc[1].pending) = 10

\* The window a position of the recipient list falls in, counted from 0.
WindowOf(p) == (p - 1) \div 10

\* C3: the recipients go out in ceil(N/10) windows of at most 10; a request
\* is pending only in the window issued last, so every request of an
\* earlier window has settled; the handler never waits on a window with
\* nothing pending (a failure does not hold up the next window), and when
\* it responds every window has been issued.
C3_WindowsSequential ==
  \A b \in Inv :
    ModernConfigured =>
      LET N == Len(bc[b].tokens)
          issued == Len(RequestsOf(b, "send"))
      IN  /\ \A k \in 1..Len(bc[b].windows) : bc[b].windows[k] \in 1..10
          /\ Len(bc[b].windows) = CeilDiv(issued, 10)
          /\ \A p \in bc[b].pending : WindowOf(p) = WindowOf(issued)
          /\ \A p \in 1..issued :
               WindowOf(p) < WindowOf(issued) => p \notin bc[b].pending
          /\ bc[b].pc \in {"window", "tail"} => bc[b].pending # {}
          /\ Replied(b) =>
               /\ issued = N
               /\ Len(bc[b].windows) = CeilDiv(N, 10)

\* The second window is in flight after a request of the first one failed.
C3_Witness ==
  /\ ModernConfigured
  /\ bc[1].pc = "tail" /\ bc[1].i = maxC + 1
  /\ bc[1].failed > 0 /\ bc[1].sent > 0

\* C6: under the legacy protocol the batch requests issued so far carry, in
\* order and each once, the first recipients of the list, no batch more than
\* 900; when the broadcast responds there are ceil(N/900) batches carrying
\* all N recipients, sent + failed <= N, and sent + failed = N when no batch
\* failed in transport.
C6_LegacyBatches ==
  \A b \in Inv :
    (~ModernConfigured /\ StaticKeyConfigured /\ bc[b].pc # "idle") =>
      LET N == Len(bc[b].tokens)
          batches == RequestsOf(b, "batch")
          carried == Concat([k \in 1..Len(batches) |-> batches[k].batch])
      IN  /\ \A k \in 1..Len(batches) : Len(batches[k].batch) \in 1..900
          /\ carried = SubSeq(bc[b].tokens, 1, Len(carried))
          /\ Replied(b) =>
               /\ Len(batches) = CeilDiv(N, 900)
               /\ carried = bc[b].tokens
               /\ bc[b].res.sent + bc[b].res.failed <= N
               /\ bc[b].batchErrors = 0 => bc[b].res.sent + bc[b].res.failed = N
               /\ bc[b].res.total = N

\* A legacy broadcast of 901 recipients has responded after two batches,
\* neither of which failed in transport.
C6_Witness ==
  /\ ~ModernConfigured /\ StaticKeyConfigured /\ Replied(1)
  /\ Len(bc[1].tokens) = legacyBatch + 1
  /\ Len(RequestsOf(1, "batch")) = 2
  /\ bc[1].batchErrors = 0 /\ bc[1].res.sent > 0 /\ bc[1].res.failed > 0

\* C7: a step in which a legacy batch fails in transport adds the size of
\* that batch to failed, leaves sent alone, and goes on: the next batch is
\* requested if recipients remain, else the broadcast responds with its
\* counts.
C7_BatchFailureCounted ==
  [][\A b \in Inv :
       bc'[b].batchErrors = bc[b].batchErrors + 1 =>
         LET n == Len(SubSeq(bc[b].tokens, bc[b].i + 1,
                             Min(bc[b].i + 900, Len(bc[b].tokens))))
             left == Len(bc[b].tokens) - (bc[b].i + n)
         IN  /\ n > 0
             /\ bc'[b].failed = bc[b].failed + n
             /\ bc'[b].sent = bc[b].sent
             /\ IF left > 0
                THEN /\ bc'[b].pc = "batch"
                     /\ Len(net') = Len(net) + 1
                     /\ net'[Len(net')].kind = "batch"
                     /\ net'[Len(net')].batch
                          = SubSeq(bc[b].tokens, bc[b].i + n + 1,
                                   Min(bc[b].i + n + 900, Len(bc[b].tokens)))
                ELSE /\ bc'[b].pc = "done"
                     /\ bc'[b].res.status = 200
                     /\ bc'[b].res.failed = bc[b].failed + n
                     /\ bc'[b].res.sent = bc[b].sent]_vars

\* The first batch of 900 failed in transport, all of it counts as failed
\* and the second batch is awaited.
C7_Witness ==
  /\ bc[1].batchErrors = 1 /\ bc[1].pc = "batch"
  /\ bc[1].failed = legacyBatch /\ bc[1].sent = 0
  /\ Len(RequestsOf(1, "batch")) = 2

\* C8: with neither the modern credentials nor the static key configured, a
\* broadcast issues no outbound request and responds with the
\* configuration error.
C8_UnconfiguredNoRequest ==
  (~ModernConfigured /\ ~StaticKeyConfigured) =>
    /\ net = <<>>
    /\ \A b \in Inv :
         bc[b].pc \in {"idle", "done"}
         /\ (bc[b].pc = "done" =>
               /\ bc[b].res.status = 500
               /\ bc[b].res.error = "server_missing_fcm_credentials")

\* An unconfigured broadcast over a non-empty recipient list has responded.
C8_Witness ==
  /\ ~ModernConfigured /\ ~StaticKeyConfigured
  /\ bc[1].pc = "done" /\ memTokens # <<>>

\* C9: one broadcast uses one protocol.  Token exchanges and per-recipient
\* sends are issued only when service identity and project id are both
\* configured, legacy batches only when they are not and a static key is;
\* with both configured no batch is issued whatever the sends do, and with
\* the legacy protocol selected every recipient goes out in a batch.
C9_ProtocolExclusive ==
  \A b \in Inv :
    /\ ModernConfigured => RequestsOf(b, "batch") = <<>>
    /\ ~ModernConfigured =>
         (RequestsOf(b, "send") = <<>> /\ RequestsOf(b, "exchange") = <<>>)
    /\ RequestsOf(b, "batch") # <<>> => (~ModernConfigured /\ StaticKeyConfigured)
    /\ (RequestsOf(b, "send") # <<>> \/ RequestsOf(b, "exchange") # <<>>)
         => ModernConfigured
    /\ (~ModernConfigured /\ StaticKeyConfigured /\ bc[b].pc = "done"
          /\ bc[b].tokens # <<>>) => RequestsOf(b, "batch") # <<>>

\* With a static key configured as well, a modern broadcast has responded
\* after every one of its sends failed.
C9_Witness ==
  /\ ModernConfigured /\ StaticKeyConfigured /\ Replied(1)
  /\ Len(bc[1].tokens) = maxC + 1
  /\ bc[1].res.sent = 0 /\ bc[1].res.failed = maxC + 1

\* Five minutes, in milliseconds.
FiveMinutes == 5 * 60 * 1000

\* At the getFcmAccessToken call of invocation b a token was cached whose
\* expiry was more than five minutes away.
FreshAtCall(b) ==
  bc[b].callAuth.token # 0 /\ bc[b].callAuth.exp - bc[b].callClock > FiveMinutes

\* C4: a getFcmAccessToken call that finds a cached token more than five
\* minutes from its expiry issues no exchange and returns that token; a call
\* that finds no token, or one within five minutes of its expiry or past
\* it, issues exactly one exchange and returns the token of that exchange,
\* never the cached one.
C4_ExchangeIffStale ==
  \A b \in Inv :
    (bc[b].called /\ env.sa = "ok") =>
      LET n == Len(RequestsOf(b, "exchange"))
      IN  /\ FreshAtCall(b) => (n = 0 /\ bc[b].bearer = bc[b].callAuth.token)
          /\ ~FreshAtCall(b) =>
               /\ n = 1
               /\ ~bc[b].hit
               /\ bc[b].bearer # 0 => bc[b].bearer # bc[b].callAuth.token

\* C5: a token returned by getFcmAccessToken, cached or fresh, has at least
\* five minutes of validity left when it is returned.
C5_FiveMinutesLeft ==
  \A b \in Inv :
    bc[b].bearer # 0 => bc[b].tokExp - bc[b].tokAt >= FiveMinutes

RouteCalls == RequestsOf(0, "route")

RouteFailed == rt.pc = "done" /\ rt.res.status # 200

\* C10: a route request calls the provider at most twice; the first call
\* asks for alternatives; a second call is made exactly when the first was
\* rejected with status 400, and it omits the options; a first call rejected
\* otherwise, and a rejected retry (a second 400 too), end the request with
\* the error and without a further call.
C10_RetryOnceOn400 ==
  /\ Len(RouteCalls) <= 2
  /\ (rt.pc = "idle") => RouteCalls = <<>>
  /\ Len(RouteCalls) >= 1 => RouteCalls[1].options
  /\ Len(RouteCalls) = 2 <=> (rt.first.answer = "rejected" /\ rt.first.status = 400)
  /\ Len(RouteCalls) = 2 => ~RouteCalls[2].options
  /\ (rt.first.answer = "rejected" /\ rt.first.status # 400) =>
       /\ RouteFailed
       /\ rt.res.status \in {500, rt.first.status}
       /\ rt.retry.answer = "none"
  /\ rt.retry.answer = "rejected" =>
       /\ RouteFailed
       /\ rt.res.status \in {500, rt.retry.status}
  /\ rt.pc = "first" => (Len(RouteCalls) = 1 /\ rt.first.answer = "none")
  /\ rt.pc = "retry" => (Len(RouteCalls) = 2 /\ rt.retry.answer = "none")

\* The first call was rejected with 400, the retry with 400 again, and the
\* request has ended with that error after two calls.
C10_Witness ==
  /\ rt.first.answer = "rejected" /\ rt.first.status = 400
  /\ rt.retry.answer = "rejected" /\ rt.retry.status = 400
  /\ rt.pc = "done" /\ rt.res.status = 400
  /\ Len(RouteCalls) = 2

\* The route request has been answered with a route.
RouteReplied == rt.pc = "done" /\ rt.res.status = 200

\* C11: the candidate selected from a non-empty list has the smallest
\* distance among the candidates that have one, wherever the candidates
\* without a distance stand in the list; one without a distance is selected
\* only when no candidate has a distance.  The response reports the
\* distance of the selected candidate.
C11_ShortestSelected ==
  RouteReplied =>
    LET fs == rt.features
        withDist == { k \in 1..Len(fs) : fs[k].hasDist }
    IN  /\ rt.best \in 1..Len(fs)
        /\ withDist # {} =>
             /\ rt.best \in withDist
             /\ \A k \in withDist : fs[rt.best].distance <= fs[k].distance
        /\ ~fs[rt.best].hasDist => withDist = {}
        /\ rt.res.hasDist = fs[rt.best].hasDist
        /\ rt.res.hasDist => rt.res.distance = fs[rt.best].distance

\* Of the candidates with distances 120, 95 and none, the one of 95 has
\* been selected.
C11_Witness ==
  /\ RouteReplied
  /\ rt.features = <<Candidate(TRUE, 120), Candidate(TRUE, 95), Candidate(FALSE, 0)>>
  /\ rt.best = 2 /\ rt.res.distance = 95

\* The coercion the coordinate rule prescribes: an object keeps its lat and
\* lng; a pair within the latitude and longitude bounds is (lat, lng); a
\* pair whose first value exceeds the latitude bound is swapped; a value
\* from which no point with lat in [-90, 90] and lng in [-180, 180] can be
\* formed is invalid.
PrescribedLL(x) ==
  IF x.shape = "obj" THEN LatLng(x.a.v, x.b.v)
  ELSE IF x.shape = "arr" /\ x.a.fin /\ x.b.fin
  THEN IF Abs(x.a.v) <= 90 /\ Abs(x.b.v) <= 180 THEN LatLng(x.a.v, x.b.v)
       ELSE IF Abs(x.a.v) > 90 /\ Abs(x.b.v) <= 90 /\ Abs(x.a.v) <= 180
            THEN LatLng(x.b.v, x.a.v)
            ELSE InvalidCoordinate
  ELSE InvalidCoordinate

\* The route request got as far as coercing its points.
RouteCoerced ==
  /\ rt.pc # "idle" /\ env.orsKey
  /\ rt.origin.shape # "missing" /\ rt.destination.shape # "missing"

\* C12: origin and destination are coerced as the coordinate rule
\* prescribes, and a value the rule calls invalid, such as [999, 999], ends
\* the request with the invalid-coordinate error.
C12_CoercionAsPrescribed ==
  RouteCoerced =>
    IF ~PrescribedLL(rt.origin).ok \/ ~PrescribedLL(rt.destination).ok
    THEN rt.pc = "done" /\ rt.res.error = "invalid coordinate"
    ELSE rt.a = PrescribedLL(rt.origin) /\ rt.b = PrescribedLL(rt.destination)

\* The value is neither an object with numeric lat and lng nor a pair of
\* finite numbers: its coercion throws.
CoercionFails(x) ==
  x.shape = "other" \/ (x.shape = "arr" /\ ~(x.a.fin /\ x.b.fin))

\* C15: a route request without the provider credential, without origin or
\* destination, or with a point whose coercion fails ends with an error
\* before any provider request: nothing is sent and nothing is logged.
C15_RejectedBeforeRequest ==
  ( /\ rt.pc # "idle"
    /\ \/ ~env.orsKey
       \/ rt.origin.shape = "missing" \/ rt.destination.shape = "missing"
       \/ CoercionFails(rt.origin) \/ CoercionFails(rt.destination) )
  => /\ rt.pc = "done" /\ rt.res.status = 500
     /\ net = <<>>
     /\ memLogs = <<>>
     /\ rt.first.answer = "none"

\* A request whose destination cannot be coerced has ended, with the
\* credential set and a good origin.
C15_Witness ==
  /\ env.orsKey /\ rt.pc = "done"
  /\ rt.origin = Obj(40, -73) /\ rt.destination = Arr(NotFinite, Num(40))
  /\ rt.res.error = "invalid coordinate" /\ net = <<>>

\* The answer to the last provider call of the route request.
FinalAnswer == IF rt.retry.answer # "none" THEN rt.retry ELSE rt.first

\* What C18 says of a request whose provider exchange is over, but for the
\* response to a rejected final call: no candidate is the no-route error, a
\* route reports the number of candidates returned, and the log holds one
\* entry exactly when a route was returned.
C18_Common ==
  /\ (FinalAnswer.answer = "ok" /\ rt.features = <<>>) =>
       (rt.res.status = 500 /\ rt.res.error = "No route returned")
  /\ (FinalAnswer.answer = "ok" /\ rt.features # <<>>) =>
       (rt.res.status = 200 /\ rt.res.alternatives = Len(rt.features)
          /\ rt.best \in 1..Len(rt.features))
  /\ Len(memLogs) = (IF rt.res.status = 200 THEN 1 ELSE 0)
  /\ rt.res.status = 200 => memLogs[1].pathsAnalyzed = Len(rt.features)

TokenFailed(b) == bc[b].called /\ bc[b].pc = "done" /\ bc[b].bearer = 0

\* C14: a modern broadcast whose token acquisition fails ends with an error
\* response; it sends to no recipient, reports no counts and does not fall
\* back to the legacy protocol, even when the legacy key is set.
C14_TokenFailureEndsBroadcast ==
  \A b \in Inv :
    TokenFailed(b) =>
      /\ bc[b].res.status = 500 /\ bc[b].res.error # ""
      /\ bc[b].res.sent = 0 /\ bc[b].res.failed = 0 /\ bc[b].res.total = 0
      /\ bc[b].sent = 0 /\ bc[b].failed = 0
      /\ RequestsOf(b, "send") = <<>>
      /\ RequestsOf(b, "batch") = <<>>

\* With both protocols configured and recipients registered, the exchange
\* has failed and the broadcast has ended after that one request.
C14_Witness ==
  /\ ModernConfigured /\ StaticKeyConfigured
  /\ TokenFailed(1) /\ Len(bc[1].tokens) = maxC + 1
  /\ bc[1].res.error = "token_exchange_failed"
  /\ net = <<exchangeRequest(1)>>

\* The deadline the timeout rule names.
TwentySeconds == 20 * 1000
FifteenSeconds == 15 * 1000

\* The requests of one kind issued so far, by whichever handler.
Outbound(kind) == { k \in 1..Len(net) : net[k].kind = kind }

Lifetimes ==
  { (IF e = 0 THEN defaultExpiresIn ELSE e) * 1000 : e \in ExpiresIn }

\* In this step the exchange of invocation b completes with a token.
ExchangeSucceeds(b) ==
  bc[b].pc = "exchange" /\ bc'[b].pc # "exchange" /\ bc'[b].bearer # 0

\* In this step the getFcmAccessToken call of invocation b fails: it
\* throws on the configuration at the call, or its exchange fails in
\* transport or is answered without an access token.
TokenCallFails(b) ==
  bc[b].pc \in {"idle", "exchange"} /\ bc'[b].pc = "done" /\ bc'[b].called
    /\ bc'[b].bearer = 0

\* In this step the getFcmAccessToken call of invocation b is answered
\* from the cache.
TokenCallHits(b) == bc[b].pc = "idle" /\ bc'[b].hit

\* C13: the cached credential changes only when an exchange completes with
\* a token.  A call answered from the cache, a call failing on the
\* configuration, in transport or for want of an access token leaves the
\* cached token and expiry as they were, and a failing call hands its error
\* to the caller.
C13_CacheChangesOnlyOnExchange ==
  [][ /\ (fcmAuth' # fcmAuth) =>
           \E b \in Inv : ExchangeSucceeds(b) /\ fcmAuth'.token = bc'[b].bearer
      /\ \A b \in Inv :
           TokenCallFails(b) =>
             /\ fcmAuth' = fcmAuth
             /\ bc'[b].res.status = 500
             /\ bc'[b].res.error \in
                  {"invalid_service_account_json", "sign_error", "timeout",
                   "network_error", "non_2xx", "token_exchange_failed"}
      /\ \A b \in Inv :
           TokenCallHits(b) =>
             fcmAuth' = fcmAuth /\ bc'[b].bearer = fcmAuth.token ]_vars

\* An exchange has failed while a token from an earlier exchange, since
\* gone stale, is still in the cache.
C13_Witness ==
  \E b \in Inv :
    /\ TokenFailed(b) /\ bc[b].res.error = "token_exchange_failed"
    /\ bc[b].callAuth.token # 0
    /\ fcmAuth = bc[b].callAuth

\* C17: refresh is not mutually exclusive.  Every call that finds the cache
\* stale posts its own exchange, also while another exchange is in flight;
\* each exchange that completes returns its own token, different from every
\* other call's, and writes it to the cache with the expiry computed from
\* its own completion, so the cache holds the credential of the exchange
\* that completed last.
C17_LastWriterWins ==
  [][ /\ \A b \in Inv :
           (bc[b].pc = "idle" /\ bc'[b].called /\ env.sa = "ok" /\ ~bc'[b].hit) =>
             /\ bc'[b].pc = "exchange"
             /\ net' = Append(net, exchangeRequest(b))
      /\ \A b \in Inv :
           ExchangeSucceeds(b) =>
             /\ \A o \in Inv \ {b} : bc[o].bearer # bc'[b].bearer
             /\ fcmAuth'.token = bc'[b].bearer
             /\ (fcmAuth'.exp - clock) \in Lifetimes
             /\ bc'[b].tokExp = fcmAuth'.exp ]_vars

\* Two calls found the cache empty and posted their exchanges before
\* either was answered; the second was answered first, an hour passed, and
\* the cache holds the token and expiry of the first, answered last.
C17_Witness ==
  /\ net = <<exchangeRequest(1), exchangeRequest(2)>>
  /\ bc[2].bearer = 1 /\ bc[1].bearer = 2
  /\ bc[1].tokAt > bc[2].tokAt
  /\ fcmAuth.token = 2 /\ fcmAuth.exp = bc[1].tokExp
  /\ fcmAuth.exp # bc[2].tokExp

\* The positions in the outbound traffic of the requests of one kind made
\* by invocation b.
PositionsOf(b, kind) ==
  { k \in 1..Len(net) : net[k].inv = b /\ net[k].kind = kind }

\* C19: a modern broadcast obtains its bearer token once, before its first
\* send: it makes at most one exchange, every send comes after it, and
\* every send of the broadcast, in every window, carries the one token the
\* broadcast obtained, whatever has since become of the cache and of the
\* token's life.
C19_OneBearerPerBroadcast ==
  \A b \in Inv :
    /\ Cardinality(PositionsOf(b, "exchange")) <= 1
    /\ \A k \in PositionsOf(b, "send") :
         /\ bc[b].called
         /\ bc[b].hit = (PositionsOf(b, "exchange") = {})
         /\ \A x \in PositionsOf(b, "exchange") : x < k
         /\ net[k].bearer = bc[b].bearer
         /\ net[k].bearer # 0

\* A broadcast has issued its last window with the token it obtained at
\* its start, after that token expired and a later broadcast's exchange put
\* another token in the cache.
C19_Witness ==
  \E b \in Inv :
    /\ Cardinality(PositionsOf(b, "send")) = Len(bc[b].tokens)
    /\ Len(bc[b].windows) > 1
    /\ \E k \in PositionsOf(b, "send"), x \in 1..Len(net) :
         /\ net[x].kind = "exchange" /\ net[x].inv # b /\ x < k
         /\ net[k].bearer # fcmAuth.token
    /\ fcmAuth.token # 0 /\ fcmAuth.token # bc[b].bearer
    /\ clock > bc[b].tokExp

\* The response r of invocation b accounts for the requests b issued, as
\* found in the traffic: total is the length of the snapshot, the requests
\* went to the recipients of the snapshot, one each and in order, and every
\* one of them was counted once, as sent or as failed.
Accounted(b, r, traffic) ==
  LET mine(kind) == SelectSeq(traffic, LAMBDA q : q.inv = b /\ q.kind = kind)
      batches    == mine("batch")
  IN  /\ r.res.total = Len(r.tokens)
      /\ r.res.sent = r.sent /\ r.res.failed = r.failed
      /\ r.res.sent + r.res.failed = Len(r.tokens)
      /\ Recipients(mine("send")) \o Concat([k \in 1..Len(batches) |-> batches[k].batch])
           = r.tokens

\* C20: overlapping broadcasts do not interfere in their accounting.  An
\* invocation reads the registered tokens once, at its start; a step of one
\* invocation, or a registration, changes nothing of another invocation,
\* its snapshot and counters included; each completion of a send adds one
\* to the counters of the invocation that issued it; and the counts an
\* invocation reports are those of its own requests for its own snapshot.
C20_OverlapNoInterference ==
  [][ /\ \A b \in Inv :
           /\ (bc[b].pc = "idle" /\ bc'[b].pc # "idle") => bc'[b].tokens = memTokens
           /\ (bc[b].pc # "idle") => bc'[b].tokens = bc[b].tokens
           /\ (bc'[b] # bc[b]) => \A o \in Inv \ {b} : bc'[o] = bc[o]
           /\ (bc'[b].pending # bc[b].pending /\ bc[b].pending # {}) =>
                bc'[b].sent + bc'[b].failed = bc[b].sent + bc[b].failed + 1
           /\ (bc'[b].pc = "done" /\ bc'[b].res.status = 200) =>
                Accounted(b, bc'[b], net')
      /\ (memTokens' # memTokens) => bc' = bc ]_vars

\* Two broadcasts overlapped: the first read one token, a second token was
\* registered, the second broadcast read both, and each reported the counts
\* of its own requests.
C20_Witness ==
  /\ Replied(1) /\ Replied(2)
  /\ bc[1].tokens = <<1>> /\ bc[2].tokens = <<1, 2>>
  /\ bc[1].res.total = 1 /\ bc[2].res.total = 2
  /\ bc[1].res.failed = 1 /\ bc[2].res.sent = 2
  /\ \E j, k \in 1..Len(net) :
       j < k /\ net[j].inv = 2 /\ net[j].kind = "send"
             /\ net[k].inv = 1 /\ net[k].kind = "send"

\* The responses a handler can write: a result, or an error.
Responded(res) == res.status \in {200, 400, 500}

\* C21: provided every outbound request eventually settles, every
\* broadcast and every route request that has arrived is eventually
\* answered, with a result or with an error, whatever failed on the way;
\* before that it has written no response, and once it has responded its
\* response is never changed or followed by another.
C21_ExactlyOneResponse ==
  /\ \A b \in Inv : (bc[b].pc # "idle") ~> (bc[b].pc = "done" /\ Responded(bc[b].res))
  /\ (rt.pc # "idle") ~> (rt.pc = "done" /\ Responded(rt.res))
  /\ [](\A b \in Inv : bc[b].pc # "done" => bc[b].res = NoResponse)
  /\ [](rt.pc # "done" => rt.res = NoRouteResponse)
  /\ [][ /\ \A b \in Inv : bc[b].pc = "done" => bc'[b] = bc[b]
         /\ rt.pc = "done" => rt' = rt ]_vars

\* A broadcast that counted a failed send and a route request whose retry
\* was rejected have both responded.
C21_Witness ==
  /\ bc[1].pc = "done" /\ bc[1].res.status = 200 /\ bc[1].res.failed > 0
  /\ Len(bc[1].windows) > 1
  /\ rt.pc = "done" /\ rt.retry.answer = "rejected" /\ Responded(rt.res)

====
